---- MODULE Spec2Model ----
(***************************************************************************)
(* State-machine model of the MTAP SDK: the retry loop of                  *)
(* HttpTransport.request (src/transport/http.py) and the session handling  *)
(* of MtapClient (src/core/client.py).                                     *)
(*                                                                         *)
(* Both are asyncio coroutines: the code between two awaits runs without   *)
(* interleaving, so every action below is one such stretch of code, from   *)
(* the resumption of an await to the next await (or to the return/raise).  *)
(*                                                                         *)
(* Times are integers in milliseconds.  Backoff factors are multiples of   *)
(* 100 ms and the jitter draw random.uniform(-1, 1) is taken in tenths, so *)
(* that delay * 0.1 * draw is an exact integer.                            *)
(***************************************************************************)
EXTENDS Integers, Sequences, FiniteSets, TLC

\* ------------------------------------------------------------------ bounds

\* Largest RetryConfig.attempts explored (0 .. MaxAttempts).
MaxAttempts == 3

\* Number of MtapClient coroutines started in one behaviour.
MaxOps == 4

\* ------------------------------------------------------- RetryConfig domain

\* HTTP statuses the server may answer with: a success, a client error and a
\* server error.
Statuses == {200, 404, 503}

\* RetryConfig.status_forcelist values explored; the second is the default.
Forcelists == {{}, {500, 502, 503, 504}, {200, 503}, {404, 503}}

\* RetryConfig.backoff_factor values explored, in ms (the default is 500).
BackoffFactors == {100, 500}

\* RetryConfig.max_retry_delay values explored, in ms (the default is 60000).
MaxRetryDelays == {0, 450, 60000}

\* random.uniform(-1, 1), in tenths.
JitterDraws == {-10, -5, 0, 5, 10}

\* The calls of HttpTransport.request that may be in flight on one transport.
Calls == {"c1", "c2"}

\* The asyncio tasks that call into one MtapClient.
Tasks == {"t1", "t2"}

\* What auth_provider.authenticate() does: it returns a SessionContext with
\* token_info, a SessionContext without token_info, something that is not
\* a SessionContext, or it raises; "varying" is a provider that may do any of
\* these on each call.
Providers == {"valid", "no_token", "not_session", "raises", "varying"}

VARIABLES
    retry_config,     \* HttpTransport._retry_config
    state,            \* per call: where the coroutine is
    current_attempt,  \* per call: local current_attempt
    last_exception,   \* per call: local last_exception
    actual_delay,     \* per call: local actual_delay (ms), -1 before it is bound
    outcomes,         \* per call: what each HTTP attempt ended in, in order
    http_calls,       \* per call: number of client.request / client.send calls
    sleeps,           \* per call: number of asyncio.sleep calls
    result,           \* per call: what request() returned or raised
    stream_response,  \* per call: parameter stream_response
    open_responses,   \* per call: httpx responses opened and not closed
    body,             \* per call: the body arguments and the body of each attempt
    provider,         \* how MtapClientConfig.auth_provider behaves
    is_closed,        \* MtapClient._is_closed
    session_context,  \* MtapClient._session_context
    op,               \* per task: the MtapClient coroutine it runs
    pc,               \* per task: the await the coroutine is suspended at
    outcome,          \* per task: what the coroutine returned or raised
    ops_started,      \* number of MtapClient coroutines started
    auth_calls,       \* number of auth_provider.authenticate() calls
    transport_calls,  \* number of transport.request(...) calls
    transport,        \* MtapClient.transport: which request() signature it has
    default_headers,  \* MtapClientConfig.default_headers
    request,          \* per task: the arguments of its _make_request call
    auth_headers,     \* per task: local auth_headers, what get_auth_headers() returned
    all_headers,      \* per task: local all_headers, the headers given to the transport
    raw_response,     \* per task: local raw_response
    error_payload,    \* per task: local error_payload
    reply,            \* per task: what _make_request returns or raises, once decided
    handled,          \* a call of _handle_api_error: its arguments and what it raised
    closing,          \* close(): its calls, and its calls of transport.close() and logout()
    extensions,              \* ExtensionRegistry._extensions
    initialized_extensions,  \* ExtensionRegistry._initialized_extensions
    instances,               \* number of extension instances constructed
    extension,               \* per task: extension_id and extension_instance of get_extension
    initialize_ok,           \* per extension_id: initialize() calls that completed
    returned                 \* per extension_id: the instances get_extension has returned

tvars == <<retry_config, state, current_attempt, last_exception, actual_delay,
           outcomes, http_calls, sleeps, result, stream_response, open_responses, body>>

cvars == <<provider, is_closed, session_context, op, pc, outcome, ops_started,
           auth_calls, transport_calls>>

rvars == <<transport, default_headers, request, auth_headers, all_headers, raw_response,
           error_payload, reply>>

kvars == <<handled, closing>>

evars == <<extensions, initialized_extensions, instances, extension, initialize_ok, returned>>

vars == <<tvars, cvars, rvars, kvars, evars>>

\* ------------------------------------------------------------------ values

RetryConfig(a, b, m, f) ==
    [attempts |-> a, backoff_factor |-> b, max_retry_delay |-> m, status_forcelist |-> f]

Response(s) == [kind |-> "response", status |-> s]
Timeout == [kind |-> "timeout", status |-> 0]
ConnectError == [kind |-> "network", status |-> 0]
Unexpected == [kind |-> "unexpected", status |-> 0]

\* What one HTTP attempt can end in: a response, httpx.TimeoutException,
\* httpx.NetworkError, or any other exception.
Outcomes == {Response(s) : s \in Statuses} \cup {Timeout, ConnectError, Unexpected}

NoException == [type |-> "None", why |-> "none", attempt |-> 0, status |-> 0]
NetworkErrorOf(why, k) == [type |-> "NetworkError", why |-> why, attempt |-> k, status |-> 0]
HTTPStatusErrorOf(s, k) == [type |-> "HTTPStatusError", why |-> "status", attempt |-> k, status |-> s]

Pending == [kind |-> "pending", type |-> "none", why |-> "none", attempt |-> 0, status |-> 0]
Returned(s) == [kind |-> "return", type |-> "Response", why |-> "none", attempt |-> 0, status |-> s]
Raised(e) == [kind |-> "raise", type |-> e.type, why |-> e.why, attempt |-> e.attempt, status |-> e.status]
MtapApiErrorOf(s) == [type |-> "MtapApiError", why |-> "after retries", attempt |-> 0, status |-> s]
UnexpectedState == [type |-> "NetworkError", why |-> "unexpected state", attempt |-> 0, status |-> 0]

\* ------------------------------------------------------- HttpTransport.request

Pow2(n) == IF n <= 0 THEN 1 ELSE 2 ^ n

Min(a, b) == IF a <= b THEN a ELSE b
Max(a, b) == IF a >= b THEN a ELSE b

\* Variant: only a 5xx raises.
RaisesForStatus_ServerOnly(s) == s >= 500 /\ s < 600

\* httpx.Response.raise_for_status(): raises HTTPStatusError for a 4xx / 5xx.
RaisesForStatus(s) == s >= 400 /\ s < 600

\* Variant: the loop test off by one.
AttemptsRemain_OffByOne(k) == k <= retry_config.attempts

\* while current_attempt < self._retry_config.attempts  (also line 128)
AttemptsRemain(k) == k < retry_config.attempts

\* Variant: the forcelist is not consulted.
RetryableStatus_AnyStatus(s, k) == AttemptsRemain(k)

\* response.status_code in status_forcelist and current_attempt < attempts
RetryableStatus(s, k) == s \in retry_config.status_forcelist /\ AttemptsRemain(k)

\* delay = backoff_factor * 2 ** (current_attempt - 1)
Delay(k) == retry_config.backoff_factor * Pow2(k - 1)

\* Variant: 20% jitter.
Jitter_Wide(k, j) == (Delay(k) * j * 2) \div 100

\* jitter = delay * 0.1 * random.uniform(-1, 1), the draw j in tenths
Jitter(k, j) == (Delay(k) * j) \div 100

\* actual_delay = max(0, min(delay + jitter, max_retry_delay))
ActualDelay(k, j) == Max(0, Min(Delay(k) + Jitter(k, j), retry_config.max_retry_delay))

\* The except clauses of the attempt: the value bound to last_exception.
CaughtAs(o, k) ==
    CASE o.kind = "timeout" -> NetworkErrorOf("timeout", k)
      [] o.kind = "network" -> NetworkErrorOf("network", k)
      [] o.kind = "unexpected" -> NetworkErrorOf("unexpected", k)
      [] OTHER -> HTTPStatusErrorOf(o.status, k)

\* Variant: last_exception is not consulted.
AfterLoop_Lost(e) == Raised(UnexpectedState)

\* After the loop: what request() raises.
AfterLoop(e) ==
    IF e.type # "None"
    THEN IF e.type = "HTTPStatusError" THEN Raised(MtapApiErrorOf(e.status)) ELSE Raised(e)
    ELSE Raised(UnexpectedState)

\* The body arguments of request(): files is None, a dict of byte parts or a
\* dict whose data part is an async generator; stream_data is None or an
\* async generator; data is None, b"" or bytes; json_data is None, {} or a
\* dict with entries.
BodyArgs(fl, sd, d, j) ==
    [files |-> fl, stream_data |-> sd, data |-> d, json_data |-> j,
     consumed |-> FALSE, handed |-> 0, stale |-> FALSE, sent |-> <<>>,
     method |-> "GET", url |-> "url", headers |-> "None", args_sent |-> <<>>]

\* The same call with the given method, url and headers.
WithArgs(b, m, u, h) == [b EXCEPT !.method = m, !.url = u, !.headers = h]

NoBodyArgs == BodyArgs("None", FALSE, "None", "None")

BodyArgSets ==
    {BodyArgs(fl, sd, d, j) : fl \in {"None", "byte parts", "generator part"}, sd \in BOOLEAN,
                              d \in {"None", "empty", "bytes"}, j \in {"None", "empty", "dict"}}

\* Variant: json_data is looked at before data.
Variant_JsonFirst(b) ==
    IF b.files # "None" THEN "files"
    ELSE IF b.stream_data THEN "content: stream_data"
    ELSE IF b.json_data = "dict" THEN "json"
    ELSE IF b.data = "bytes" THEN "content: data"
    ELSE "no body"

\* Lines 54-59 and 75-80: the one body entry of request_args.
Variant(b) ==
    IF b.files # "None" THEN "files"
    ELSE IF b.stream_data THEN "content: stream_data"
    ELSE IF b.data = "bytes" THEN "content: data"
    ELSE IF b.json_data = "dict" THEN "json"
    ELSE "no body"

\* The body of the attempts is read from an async generator.
Lazy(b) ==
    \/ Variant(b) = "content: stream_data"
    \/ Variant(b) = "files" /\ b.files = "generator part"

\* Variant: an attempt after the first is given an Idempotency-Key of its own.
RequestArgs_FreshKey(b) ==
    [method |-> b.method, url |-> b.url,
     headers |-> IF b.args_sent = <<>> THEN b.headers
                 ELSE [b.headers EXCEPT !["Idempotency-Key"] = "key of the retry"]]

\* Lines 69-74: method, url and headers of request_args are the parameters.
RequestArgs(b) == [method |-> b.method, url |-> b.url, headers |-> b.headers]

\* Lines 69-80: request_args of one more attempt is built from the arguments.
Attempted(b) ==
    [b EXCEPT !.sent = Append(@, Variant(b)),
              !.args_sent = Append(@, RequestArgs(b)),
              !.handed = @ + (IF Lazy(b) THEN 1 ELSE 0),
              !.stale = @ \/ (Lazy(b) /\ b.consumed)]

\* httpx has sent the body of the attempt, or (reached = FALSE) the attempt
\* failed before any of it was read.
Consumed(b, reached) == [b EXCEPT !.consumed = @ \/ (Lazy(b) /\ reached)]

\* Variant: the attempt counter is kept on the transport, one for all calls.
Frame_OnTransport(c) == "c1"

\* Lines 62-64: attempts_left, current_attempt and last_exception are locals
\* of the coroutine, one frame per call.
Frame(c) == c

\* Entry of request(): the locals are bound and the loop is entered.  With
\* attempts <= 0 the loop body never runs and the code after the loop raises.
Request(c, b) ==
    /\ state[c] = "Idle"
    /\ body' = [body EXCEPT ![c] = IF AttemptsRemain(0) THEN Attempted(b) ELSE b]
    /\ \E sr \in BOOLEAN : stream_response' = [stream_response EXCEPT ![c] = sr]
    /\ last_exception' = [last_exception EXCEPT ![c] = NoException]
    /\ IF AttemptsRemain(0)
       THEN /\ current_attempt' = [current_attempt EXCEPT ![Frame(c)] = 1]
            /\ http_calls' = [http_calls EXCEPT ![c] = @ + 1]
            /\ state' = [state EXCEPT ![c] = "Attempting"]
            /\ UNCHANGED result
       ELSE /\ current_attempt' = [current_attempt EXCEPT ![Frame(c)] = 0]
            /\ state' = [state EXCEPT ![c] = "Failed"]
            /\ result' = [result EXCEPT ![c] = AfterLoop(NoException)]
            /\ UNCHANGED http_calls
    /\ UNCHANGED <<retry_config, actual_delay, outcomes, sleeps, open_responses>>
    /\ UNCHANGED <<cvars, rvars, kvars, evars>>

\* Variant: the delay is slept after the last attempt too.
RetryOrFail_AlwaysSleep(c, e) ==
    /\ last_exception' = [last_exception EXCEPT ![c] = e]
    /\ \E j \in JitterDraws :
         actual_delay' = [actual_delay EXCEPT ![c] = ActualDelay(current_attempt[c], j)]
    /\ sleeps' = [sleeps EXCEPT ![c] = @ + 1]
    /\ state' = [state EXCEPT ![c] = "Retrying"]
    /\ UNCHANGED result

\* The tail of the loop body after an except clause bound last_exception to e:
\* sleep when attempts remain, else break and raise.
RetryOrFail(c, e) ==
    /\ last_exception' = [last_exception EXCEPT ![c] = e]
    /\ IF AttemptsRemain(current_attempt[c])
       THEN /\ \E j \in JitterDraws :
                 actual_delay' = [actual_delay EXCEPT ![c] = ActualDelay(current_attempt[c], j)]
            /\ sleeps' = [sleeps EXCEPT ![c] = @ + 1]
            /\ state' = [state EXCEPT ![c] = "Retrying"]
            /\ UNCHANGED result
       ELSE /\ state' = [state EXCEPT ![c] = "Failed"]
            /\ result' = [result EXCEPT ![c] = AfterLoop(e)]
            /\ UNCHANGED <<actual_delay, sleeps>>

\* request() returns the response.
ReturnResponse(c, s) ==
    /\ state' = [state EXCEPT ![c] = "Returned"]
    /\ result' = [result EXCEPT ![c] = Returned(s)]
    /\ UNCHANGED <<last_exception, actual_delay, sleeps>>

\* request() lets an HTTPStatusError escape (the re-raise of lines 101 and 123).
Reraise(c, e) ==
    /\ last_exception' = [last_exception EXCEPT ![c] = e]
    /\ state' = [state EXCEPT ![c] = "Failed"]
    /\ result' = [result EXCEPT ![c] = Raised(e)]
    /\ UNCHANGED <<actual_delay, sleeps>>

\* The handles one answered HTTP call leaves open: client.send(req,
\* stream=True) hands back an open response, client.request(...) reads and
\* closes it before it returns.  request() itself never calls aclose().
LeftOpen(sr) == IF sr THEN 1 ELSE 0

\* The awaited HTTP call of the current attempt ends in a response.
AttemptResponds(c) ==
    /\ state[c] = "Attempting"
    /\ open_responses' = [open_responses EXCEPT ![c] = @ + LeftOpen(stream_response[c])]
    /\ body' = [body EXCEPT ![c] = Consumed(@, TRUE)]
    /\ \E s \in Statuses :
         /\ outcomes' = [outcomes EXCEPT ![c] = Append(@, Response(s))]
         /\ IF RetryableStatus(s, current_attempt[c])
            THEN IF RaisesForStatus(s)
                 THEN IF s \in retry_config.status_forcelist
                      THEN RetryOrFail(c, HTTPStatusErrorOf(s, current_attempt[c]))
                      ELSE Reraise(c, HTTPStatusErrorOf(s, current_attempt[c]))
                 ELSE ReturnResponse(c, s)
            ELSE ReturnResponse(c, s)
    /\ UNCHANGED <<retry_config, current_attempt, http_calls, stream_response>>
    /\ UNCHANGED <<cvars, rvars, kvars, evars>>

\* The awaited HTTP call of the current attempt raises.
AttemptRaises(c) ==
    /\ state[c] = "Attempting"
    /\ \E reached \in BOOLEAN : body' = [body EXCEPT ![c] = Consumed(@, reached)]
    /\ \E o \in {Timeout, ConnectError, Unexpected} :
         /\ outcomes' = [outcomes EXCEPT ![c] = Append(@, o)]
         /\ RetryOrFail(c, CaughtAs(o, current_attempt[c]))
    /\ UNCHANGED <<retry_config, current_attempt, http_calls, stream_response, open_responses>>
    /\ UNCHANGED <<cvars, rvars, kvars, evars>>

\* asyncio.sleep(actual_delay) returns: the loop condition is tested again.
Wake(c) ==
    /\ state[c] = "Retrying"
    /\ IF AttemptsRemain(current_attempt[c])
       THEN /\ current_attempt' = [current_attempt EXCEPT ![Frame(c)] = @ + 1]
            /\ http_calls' = [http_calls EXCEPT ![c] = @ + 1]
            /\ state' = [state EXCEPT ![c] = "Attempting"]
            /\ body' = [body EXCEPT ![c] = Attempted(@)]
            /\ UNCHANGED result
       ELSE /\ state' = [state EXCEPT ![c] = "Failed"]
            /\ result' = [result EXCEPT ![c] = AfterLoop(last_exception[c])]
            /\ UNCHANGED <<current_attempt, http_calls, body>>
    /\ UNCHANGED <<retry_config, last_exception, actual_delay, outcomes, sleeps,
                   stream_response, open_responses>>
    /\ UNCHANGED <<cvars, rvars, kvars, evars>>

\* ------------------------------------------------ MtapClient._handle_api_error

\* A value of the error payload: a field of a JSON object.  type is the
\* Python type, text is str(value) (the string itself for a str), sub is the
\* value's own "message" entry when the value is a dict that has one.
NoSub == "<absent>"
AbsentV == [type |-> "absent", text |-> "None", sub |-> NoSub]
NoneV == [type |-> "none", text |-> "None", sub |-> NoSub]
StrV(s) == [type |-> "str", text |-> s, sub |-> NoSub]
IntV == [type |-> "int", text |-> "42", sub |-> NoSub]
BoolV == [type |-> "bool", text |-> "False", sub |-> NoSub]
ListV == [type |-> "list", text |-> "['a', 'b']", sub |-> NoSub]
DictMessageV(m) == [type |-> "dict", text |-> "{'message': ...}", sub |-> m]
DictOtherV == [type |-> "dict", text |-> "{'code': 7}", sub |-> NoSub]

FieldValues == {AbsentV, NoneV, StrV("denied"), StrV(""), IntV, BoolV, ListV,
                DictMessageV("bad scope"), DictOtherV}

\* The error payload handed to _handle_api_error: None, a str, a JSON
\* object with optional detail / error / message entries, or a JSON array.
NonePayload == [type |-> "none", text |-> "", detail |-> AbsentV, error |-> AbsentV, message |-> NoSub]
StrPayload(s) == [type |-> "str", text |-> s, detail |-> AbsentV, error |-> AbsentV, message |-> NoSub]
ListPayload == [type |-> "list", text |-> "", detail |-> AbsentV, error |-> AbsentV, message |-> NoSub]
DictPayload(d, e, m) == [type |-> "dict", text |-> "", detail |-> d, error |-> e, message |-> m]

ErrorPayloads ==
    {NonePayload, StrPayload("gateway down"), StrPayload(""), ListPayload}
        \cup {DictPayload(d, e, m) : d \in FieldValues, e \in FieldValues,
                                    m \in {NoSub, "", "top message"}}

\* The status codes _handle_api_error is called with.
ErrorStatuses == {200, 302, 400, 401, 403, 404, 409, 418, 429, 499, 500, 503, 599, 600}

\* The message of the raised error: a text, or the fallback
\* f"API Error at {url} (Status {status_code})".
Text(s) == [form |-> "text", text |-> s]
GenericMessage == [form |-> "API Error at <url> (Status <status>)", text |-> ""]

\* error_payload.get("detail", error_payload.get("error"))
Details(p) == IF p.detail.type # "absent" THEN p.detail
              ELSE IF p.error.type # "absent" THEN p.error ELSE NoneV

\* Variant: the message entry of a dict is not looked up.
ErrorMessage_NoSub(p) ==
    IF p.type = "dict"
    THEN IF Details(p).type \in {"str", "dict"} THEN Text(Details(p).text)
         ELSE IF p.message \notin {NoSub, ""} THEN Text(p.message) ELSE GenericMessage
    ELSE IF p.type = "str" /\ p.text # "" THEN Text(p.text) ELSE GenericMessage

\* Lines 115-126: the message.
ErrorMessage(p) ==
    IF p.type = "dict"
    THEN IF Details(p).type = "str" THEN Text(Details(p).text)
         ELSE IF Details(p).type = "dict"
              THEN Text(IF Details(p).sub # NoSub THEN Details(p).sub ELSE Details(p).text)
              ELSE IF p.message \notin {NoSub, ""} THEN Text(p.message) ELSE GenericMessage
    ELSE IF p.type = "str" /\ p.text # "" THEN Text(p.text) ELSE GenericMessage

\* Variant: 500 itself is left out of the server errors.
ErrorClass_Above500(s) ==
    CASE s = 400 -> "InvalidRequestError"
      [] s = 401 -> "AuthenticationError"
      [] s = 403 -> "AuthorizationError"
      [] s = 404 -> "NotFoundError"
      [] s = 409 -> "IdempotencyConflictError"
      [] s = 429 -> "RateLimitError"
      [] OTHER -> IF 500 < s /\ s < 600 THEN "ServerError" ELSE "MtapApiError"

\* Lines 128-141: the class of the raised error.
ErrorClass(s) ==
    CASE s = 400 -> "InvalidRequestError"
      [] s = 401 -> "AuthenticationError"
      [] s = 403 -> "AuthorizationError"
      [] s = 404 -> "NotFoundError"
      [] s = 409 -> "IdempotencyConflictError"
      [] s = 429 -> "RateLimitError"
      [] OTHER -> IF 500 <= s /\ s < 600 THEN "ServerError" ELSE "MtapApiError"

NoError == [class |-> "none", status_code |-> 0, message |-> Text("")]

\* _handle_api_error(status_code, error_payload, url): the error it raises.
ApiError(s, p) == [class |-> ErrorClass(s), status_code |-> s, message |-> ErrorMessage(p)]

\* _handle_api_error is called with the arguments drawn in the initial state.
HandleApiError ==
    /\ handled.raised = NoError
    /\ handled' = [handled EXCEPT !.raised = ApiError(handled.status_code, handled.error_payload)]
    /\ UNCHANGED closing
    /\ UNCHANGED <<tvars, cvars, rvars, evars>>

\* ----------------------------------------------- requests and their headers

\* A header mapping (a dict keyed by header name): NoHeader marks a name
\* that is not a key.
HeaderNames == {"Accept", "Authorization", "Content-Type", "Idempotency-Key", "Range",
                "User-Agent", "X-Consent-Proof", "X-Policy-Snapshot"}
NoHeader == "<absent>"
NoHeaders == [n \in HeaderNames |-> NoHeader]
Headers(S, v) == [n \in HeaderNames |-> IF n \in S THEN v ELSE NoHeader]

\* {**a, **b}
Merge(a, b) == [n \in HeaderNames |-> IF b[n] # NoHeader THEN b[n] ELSE a[n]]

\* Variant: the call's headers are merged last.
MergeHeaders_CallLast(d, h, a) == Merge(Merge(d, a), h)

\* Line 174: {**(default_headers or {}), **(headers or {}), **auth_headers}
MergeHeaders(d, h, a) == Merge(Merge(d, h), a)

\* Lines 174-177: the headers _make_request gives to the transport.
AllHeaders(d, rq, a) ==
    LET merged == MergeHeaders(d, rq.headers, a)
    IN  IF rq.json_data /\ ~ rq.files /\ merged["Content-Type"] = NoHeader
        THEN [merged EXCEPT !["Content-Type"] = "application/json; charset=utf-8"]
        ELSE merged

\* An optional str argument: None, the empty string, or a text.
None == "None"
IsTruthy(v) == v \notin {None, ""}

\* Variant: the header is set whatever the argument is.
WithHeader_Always(h, n, v) == [h EXCEPT ![n] = v]

\* if v: headers[n] = v
WithHeader(h, n, v) == IF IsTruthy(v) THEN [h EXCEPT ![n] = v] ELSE h

\* The arguments of a _make_request call; request_id is the argument of the
\* API method that made the call.
MakeRequest(api, rid, h, json, fl, expected, stream) ==
    [api |-> api, request_id |-> rid, headers |-> h, json_data |-> json, files |-> fl,
     expected_status |-> expected, stream_response |-> stream]

\* capture_memory, lines 235-265 (default_policy_snapshot_id is None).
CaptureMemory(request_id, consent_proof, policy_snapshot_id) ==
    MakeRequest("capture_memory", request_id,
                WithHeader(WithHeader(WithHeader(NoHeaders, "Idempotency-Key", request_id),
                                      "X-Consent-Proof", consent_proof),
                           "X-Policy-Snapshot", policy_snapshot_id),
                FALSE, TRUE, {201}, FALSE)

\* append_to_memory, lines 281-304.
AppendToMemory(request_id, consent_proof) ==
    MakeRequest("append_to_memory", request_id,
                WithHeader(WithHeader(NoHeaders, "Idempotency-Key", request_id),
                           "X-Consent-Proof", consent_proof),
                FALSE, TRUE, {200, 201}, FALSE)

\* revoke_memory, lines 399-410: the JSON body always has the cascade entry.
RevokeMemory(request_id, consent_proof) ==
    MakeRequest("revoke_memory", request_id,
                WithHeader(WithHeader(NoHeaders, "X-Consent-Proof", consent_proof),
                           "Idempotency-Key", request_id),
                TRUE, FALSE, {200, 202}, FALSE)

\* get_memory, lines 318-337.
GetMemory(accept_format, byte_range, consent_proof, stream) ==
    MakeRequest("get_memory", None,
                WithHeader(WithHeader(WithHeader(NoHeaders, "Accept", accept_format),
                                      "Range",
                                      IF byte_range = "0-99" THEN "bytes=0-99" ELSE byte_range),
                           "X-Consent-Proof", consent_proof),
                FALSE, FALSE, IF IsTruthy(byte_range) THEN {200, 206} ELSE {200}, stream)

\* A bare _make_request("GET", path, expected_status=[200]).
PlainRequest == MakeRequest("_make_request", None, NoHeaders, FALSE, FALSE, {200}, FALSE)

\* The calls of _make_request.
Requests ==
    {CaptureMemory(r, c, p) : r \in {None, "", "req-1"}, c \in {None, "proof"},
                              p \in {None, "policy-1"}}
        \cup {AppendToMemory(r, c) : r \in {None, "", "req-1"}, c \in {None, "proof"}}
        \cup {RevokeMemory(r, c) : r \in {None, "", "req-1"}, c \in {None, "proof"}}
        \cup {GetMemory(a, b, c, s) : a \in {None, "application/cbor"}, b \in {None, "0-99"},
                                      c \in {None, "proof"}, s \in BOOLEAN}
        \cup {PlainRequest,
              MakeRequest("_make_request", None, Headers({"Accept", "Content-Type"}, "call"),
                          TRUE, FALSE, {200}, TRUE)}

\* One call of each shape: what each method expects and whether it streams.
RequestShapes ==
    {CaptureMemory("req-1", "proof", None), AppendToMemory(None, None),
     RevokeMemory("req-1", None), PlainRequest,
     MakeRequest("_make_request", None, Headers({"Accept", "Content-Type"}, "call"),
                 TRUE, FALSE, {200}, TRUE)}
        \cup {GetMemory(None, b, None, s) : b \in {None, "0-99"}, s \in BOOLEAN}

\* MtapClientConfig.default_headers.
DefaultHeaderSets ==
    {NoHeaders, Headers({"User-Agent"}, "default"), Headers({"User-Agent", "Accept"}, "default"),
     Headers({"Accept", "Content-Type", "X-Consent-Proof"}, "default")}

\* What auth_provider.get_auth_headers() may return.
AuthHeaderSets ==
    {NoHeaders, Headers({"Authorization"}, "auth"),
     Headers({"Authorization", "Accept", "X-Consent-Proof"}, "auth")}

\* The transports a client may hold: the HttpTransport its constructor
\* installs, or a BaseTransport whose request() takes the keywords that
\* _make_request passes.
Transports == {"HttpTransport", "transport taking json="}

\* An httpx.Response as the client sees it.
NoResponse == [status_code |-> 0, content_type |-> "none", body |-> "none",
               is_closed |-> TRUE, reads |-> 0, closes |-> 0]

\* What _make_request returns or raises.
NoReply == [kind |-> "none", class |-> "none", status_code |-> 0, message |-> Text("")]
Returns(what) == [kind |-> "return", class |-> what, status_code |-> 0, message |-> Text("")]
Raises(e) == [kind |-> "raise", class |-> e.class, status_code |-> e.status_code,
              message |-> e.message]

\* ------------------------------------------------------------- MtapClient

NoSession == "None"
ValidSession == "SessionContext(token_info)"
NoTokenSession == "SessionContext()"
NotASession == "not a SessionContext"
ProviderRaises == "raises"

\* What auth_provider.authenticate() may answer.
AuthAnswers ==
    CASE provider = "valid" -> {ValidSession}
      [] provider = "no_token" -> {NoTokenSession}
      [] provider = "not_session" -> {NotASession}
      [] provider = "raises" -> {ProviderRaises}
      [] OTHER -> {ValidSession, NoTokenSession, NotASession, ProviderRaises}

\* isinstance(x, SessionContext)
IsSessionContext(x) == x \in {ValidSession, NoTokenSession}

\* Variant: the cached session is not consulted.
IsAuthenticated_NoCache == FALSE

\* Variant: _is_closed is not looked at.
IsAuthenticated_IgnoresClose ==
    session_context # NoSession /\ session_context # NoTokenSession

\* MtapClient.is_authenticated(): it has no await of its own, so awaiting it
\* does not suspend the caller.
IsAuthenticated ==
    IF is_closed THEN FALSE
    ELSE IF session_context = NoSession \/ session_context = NoTokenSession THEN FALSE
    ELSE TRUE

\* `if not session_context` of _make_request: a SessionContext instance is
\* truthy whatever its fields hold.
Truthy(x) == x # NoSession

\* The keyword arguments _make_request passes to transport.request and the
\* parameters HttpTransport.request declares (it takes no **kwargs).
PassedKwargs == {"method", "url", "headers", "data", "json", "files", "stream_data",
                 "timeout", "stream_response"}
RequestParams == {"method", "url", "headers", "data", "json_data", "files", "stream_data",
                  "timeout", "stream_response"}

\* Python binds the call only when every keyword names a parameter; it
\* raises TypeError otherwise, before the coroutine is created.
CallBinds == PassedKwargs \subseteq RequestParams

\* The same for the transport the client holds.
Binds == transport = "HttpTransport" => CallBinds

Finish(t, r) ==
    /\ pc' = [pc EXCEPT ![t] = "done"]
    /\ outcome' = [outcome EXCEPT ![t] = r]

Suspend(t, where) ==
    /\ pc' = [pc EXCEPT ![t] = where]
    /\ outcome' = [outcome EXCEPT ![t] = "pending"]

\* A task is free to start a coroutine of the client.
CanStart(t) ==
    /\ pc[t] \in {"idle", "done"}
    /\ ops_started < MaxOps

Start(t, o) ==
    /\ op' = [op EXCEPT ![t] = o]
    /\ ops_started' = ops_started + 1

\* MtapClient.authenticate() up to its await: the provider is called.
CallProvider(t) ==
    /\ auth_calls' = auth_calls + 1
    /\ Suspend(t, "authenticate")

\* _make_request after get_session_context returned s.
AfterSession(t, s) ==
    IF Truthy(s)
    THEN Suspend(t, "get_auth_headers")
    ELSE Finish(t, "AuthenticationError")

\* Variant: authentication is attempted whatever the argument is.
MayAuthenticate_Always(auto) == TRUE

\* Line 95: if auto_authenticate:
MayAuthenticate(auto) == auto

\* get_session_context(auto_authenticate) from its first line.
EnterGetSessionContext(t, auto, in_request) ==
    IF is_closed
    THEN Finish(t, "MtapSdkError: closed") /\ UNCHANGED auth_calls
    ELSE IF IsAuthenticated
         THEN /\ IF in_request THEN AfterSession(t, session_context)
                               ELSE Finish(t, session_context)
              /\ UNCHANGED auth_calls
         ELSE IF MayAuthenticate(auto)
              THEN CallProvider(t)
              ELSE Finish(t, NoSession) /\ UNCHANGED auth_calls

\* _make_request is called: it runs up to its first await.
StartMakeRequest(t, rq) ==
    /\ CanStart(t)
    /\ Start(t, "_make_request")
    /\ request' = [request EXCEPT ![t] = rq]
    /\ auth_headers' = [auth_headers EXCEPT ![t] = NoHeaders]
    /\ all_headers' = [all_headers EXCEPT ![t] = NoHeaders]
    /\ raw_response' = [raw_response EXCEPT ![t] = NoResponse]
    /\ error_payload' = [error_payload EXCEPT ![t] = NonePayload]
    /\ reply' = [reply EXCEPT ![t] = NoReply]
    /\ IF is_closed
       THEN Finish(t, "MtapSdkError: closed") /\ UNCHANGED auth_calls
       ELSE EnterGetSessionContext(t, TRUE, TRUE)
    /\ UNCHANGED <<provider, is_closed, session_context, transport_calls>>
    /\ UNCHANGED <<transport, default_headers>>
    /\ UNCHANGED <<tvars, kvars, evars>>

\* get_session_context is called.
StartGetSessionContext(t, auto) ==
    /\ CanStart(t)
    /\ Start(t, "get_session_context")
    /\ EnterGetSessionContext(t, auto, FALSE)
    /\ UNCHANGED <<provider, is_closed, session_context, transport_calls>>
    /\ UNCHANGED <<tvars, rvars, kvars, evars>>

\* authenticate is called.
StartAuthenticate(t) ==
    /\ CanStart(t)
    /\ Start(t, "authenticate")
    /\ IF is_closed
       THEN Finish(t, "MtapSdkError: closed") /\ UNCHANGED auth_calls
       ELSE CallProvider(t)
    /\ UNCHANGED <<provider, is_closed, session_context, transport_calls>>
    /\ UNCHANGED <<tvars, rvars, kvars, evars>>

\* await self.auth_provider.authenticate() completes inside authenticate():
\* the answer is stored, checked, and handed back to the caller, which runs
\* on to its next await.
AuthReturns(t) ==
    /\ pc[t] = "authenticate"
    /\ \E a \in AuthAnswers :
         IF a = ProviderRaises
         THEN /\ Finish(t, "provider error")
              /\ UNCHANGED session_context
         ELSE IF ~ IsSessionContext(a)
              THEN /\ session_context' = NoSession
                   /\ Finish(t, "AuthenticationError")
              ELSE /\ session_context' = a
                   /\ IF op[t] = "_make_request"
                      THEN AfterSession(t, a)
                      ELSE Finish(t, a)
    /\ UNCHANGED <<provider, is_closed, op, ops_started, auth_calls, transport_calls>>
    /\ UNCHANGED <<tvars, rvars, kvars, evars>>

\* await self.auth_provider.get_auth_headers() completes inside
\* _make_request: the URL and the headers are built and transport.request
\* is called.
HeadersReturn(t) ==
    /\ pc[t] = "get_auth_headers"
    /\ \/ /\ Finish(t, "provider error")
          /\ UNCHANGED <<transport_calls, auth_headers, all_headers>>
       \/ \E a \in AuthHeaderSets :
             /\ auth_headers' = [auth_headers EXCEPT ![t] = a]
             /\ all_headers' = [all_headers EXCEPT
                                  ![t] = AllHeaders(default_headers, request[t], a)]
             /\ transport_calls' = transport_calls + 1
             /\ IF Binds
                THEN Suspend(t, "transport.request")
                ELSE Finish(t, "MtapSdkError: unexpected")
    /\ UNCHANGED <<provider, is_closed, session_context, op, ops_started, auth_calls>>
    /\ UNCHANGED <<transport, default_headers, request, raw_response, error_payload, reply>>
    /\ UNCHANGED <<tvars, kvars, evars>>

\* What close() has called so far: nothing.
NotClosing == [calls |-> 0, transport_close |-> 0, logout |-> 0, logout_raised |-> FALSE]

\* if self._is_closed: return
AlreadyClosed_Never == FALSE

AlreadyClosed == is_closed

\* close is called: unless the client is closed already, transport.close() is
\* called.
StartClose(t) ==
    /\ CanStart(t)
    /\ Start(t, "close")
    /\ IF AlreadyClosed
       THEN /\ Finish(t, "None")
            /\ closing' = [closing EXCEPT !.calls = @ + 1]
       ELSE /\ Suspend(t, "transport.close")
            /\ closing' = [closing EXCEPT !.calls = @ + 1, !.transport_close = @ + 1]
    /\ UNCHANGED <<provider, is_closed, session_context, auth_calls, transport_calls>>
    /\ UNCHANGED <<tvars, rvars, handled, evars>>

\* await self.transport.close() completes: logout is called.
TransportClosed(t) ==
    /\ pc[t] = "transport.close"
    /\ Suspend(t, "logout")
    /\ closing' = [closing EXCEPT !.logout = @ + 1]
    /\ UNCHANGED <<provider, is_closed, session_context, op, ops_started, auth_calls,
                   transport_calls>>
    /\ UNCHANGED <<tvars, rvars, handled, evars>>

\* await self.auth_provider.logout() completes, or raises and is caught and
\* printed: either way the session is dropped and the client is closed.
LogoutReturns(t) ==
    /\ pc[t] = "logout"
    /\ \E raised \in BOOLEAN : closing' = [closing EXCEPT !.logout_raised = raised]
    /\ session_context' = NoSession
    /\ is_closed' = TRUE
    /\ Finish(t, "None")
    /\ UNCHANGED <<provider, op, ops_started, auth_calls, transport_calls>>
    /\ UNCHANGED <<tvars, rvars, handled, evars>>

\* ------------------------------------- _make_request: handling the response

ResponseStatuses == {200, 201, 206, 403, 503}
ContentTypes == {"application/json", "text/plain"}

\* What the body of a response holds; "read error" is a body whose aread()
\* raises.
Bodies == {"empty", "json object", "not json", "not utf-8", "read error"}

\* "application/json" in raw_response.headers.get("content-type", "").lower()
IsJson(ct) == ct = "application/json"

\* The response as the transport hands it over: read and closed by httpx,
\* or open and unread when stream_response was asked for.
Arrives(s, ct, b, stream) ==
    [status_code |-> s, content_type |-> ct, body |-> b, is_closed |-> ~ stream,
     reads |-> 0, closes |-> 0]

\* await raw_response.aread() was called once more.
ReadAfter(r) == [r EXCEPT !.reads = @ + 1]

\* Variant: aclose() leaves the response as it was.
ClosedAfter_Leak(r) == r

\* await raw_response.aclose() has completed.
ClosedAfter(r) == [r EXCEPT !.is_closed = TRUE, !.closes = @ + 1]

\* Variant: the handle is never returned as it is.
ReturnsHandle_Never(rq) == FALSE

\* Line 207: if stream_response: return raw_response
ReturnsHandle(rq) == rq.stream_response

\* Variant: a streamed error body is left to the caller.
ClosesErrorBody_UnlessStreamed(rq, s) == ~ rq.stream_response

\* Line 203: the guard of the aclose() in the finally of the error path.
ClosesErrorBody(rq, s) == ~ rq.stream_response \/ s \notin rq.expected_status

\* Lines 194-201: error_payload after the try; a failure of aread(), of
\* decode("utf-8") or of json.loads leaves it None.
ErrorPayloadOf(r) ==
    IF r.body = "read error" THEN NonePayload
    ELSE IF IsJson(r.content_type)
         THEN IF r.body = "json object"
              THEN DictPayload(DictMessageV("bad scope"), AbsentV, NoSub)
              ELSE NonePayload
         ELSE CASE r.body = "empty" -> StrPayload("")
                [] r.body = "json object" -> StrPayload("{'detail': {'message': 'bad scope'}}")
                [] r.body = "not json" -> StrPayload("gateway down")
                [] OTHER -> StrPayload("replacement characters")

MtapSdkErrorOf(why) == [class |-> "MtapSdkError", status_code |-> 0, message |-> Text(why)]
ClientNetworkError == [class |-> "NetworkError", status_code |-> 0, message |-> Text("network")]
DecodeError(s) ==
    [class |-> "MtapApiError", status_code |-> s, message |-> Text("Failed to decode JSON response")]

\* Lines 210-221: what the success path returns or raises.  json.loads
\* raises JSONDecodeError; a failing aread() or decode("utf-8") raises
\* another exception.
Decoded(r) ==
    IF r.body = "read error" THEN Raises(MtapSdkErrorOf("Error processing successful response"))
    ELSE IF r.body = "empty" THEN Returns("{}")
    ELSE IF IsJson(r.content_type)
         THEN CASE r.body = "json object" -> Returns("json object")
                [] r.body = "not json" -> Raises(DecodeError(r.status_code))
                [] OTHER -> Raises(MtapSdkErrorOf("Error processing successful response"))
         ELSE Returns("raw_content")

Decide(t, r) ==
    /\ reply' = [reply EXCEPT ![t] = r]
    /\ Finish(t, r.class)

\* await self.transport.request(...) completes: it raises, or it returns a
\* response and _make_request runs on to its next await or to its return.
TransportReturns(t) ==
    /\ pc[t] = "transport.request"
    /\ \/ /\ Decide(t, Raises(ClientNetworkError))
          /\ UNCHANGED raw_response
       \/ /\ Decide(t, Raises(MtapSdkErrorOf("Unexpected error during request transport")))
          /\ UNCHANGED raw_response
       \/ \E s \in ResponseStatuses, ct \in ContentTypes, b \in Bodies :
            /\ raw_response' = [raw_response EXCEPT
                                  ![t] = Arrives(s, ct, b, request[t].stream_response)]
            /\ IF s \notin request[t].expected_status
               THEN Suspend(t, "aread error body") /\ UNCHANGED reply
               ELSE IF ReturnsHandle(request[t])
                    THEN Decide(t, Returns("raw_response"))
                    ELSE Suspend(t, "aread") /\ UNCHANGED reply
    /\ UNCHANGED <<provider, is_closed, session_context, op, ops_started, auth_calls,
                   transport_calls>>
    /\ UNCHANGED <<transport, default_headers, request, auth_headers, all_headers, error_payload>>
    /\ UNCHANGED <<tvars, kvars, evars>>

\* The aread() of the error path completes or raises: error_payload is
\* bound and the finally is entered.
ErrorBodyRead(t) ==
    /\ pc[t] = "aread error body"
    /\ raw_response' = [raw_response EXCEPT ![t] = ReadAfter(@)]
    /\ error_payload' = [error_payload EXCEPT ![t] = ErrorPayloadOf(raw_response[t])]
    /\ IF ClosesErrorBody(request[t], raw_response[t].status_code)
       THEN Suspend(t, "aclose error body") /\ UNCHANGED reply
       ELSE Decide(t, Raises(ApiError(raw_response[t].status_code,
                                      ErrorPayloadOf(raw_response[t]))))
    /\ UNCHANGED <<provider, is_closed, session_context, op, ops_started, auth_calls,
                   transport_calls>>
    /\ UNCHANGED <<transport, default_headers, request, auth_headers, all_headers>>
    /\ UNCHANGED <<tvars, kvars, evars>>

\* The aclose() of the error path completes: _handle_api_error raises.
ErrorBodyClosed(t) ==
    /\ pc[t] = "aclose error body"
    /\ raw_response' = [raw_response EXCEPT ![t] = ClosedAfter(@)]
    /\ Decide(t, Raises(ApiError(raw_response[t].status_code, error_payload[t])))
    /\ UNCHANGED <<provider, is_closed, session_context, op, ops_started, auth_calls,
                   transport_calls>>
    /\ UNCHANGED <<transport, default_headers, request, auth_headers, all_headers, error_payload>>
    /\ UNCHANGED <<tvars, kvars, evars>>

\* The aread() of the success path completes or raises: the return value or
\* the exception is fixed and the finally is entered.
BodyRead(t) ==
    /\ pc[t] = "aread"
    /\ raw_response' = [raw_response EXCEPT ![t] = ReadAfter(@)]
    /\ reply' = [reply EXCEPT ![t] = Decoded(raw_response[t])]
    /\ Suspend(t, "aclose")
    /\ UNCHANGED <<provider, is_closed, session_context, op, ops_started, auth_calls,
                   transport_calls>>
    /\ UNCHANGED <<transport, default_headers, request, auth_headers, all_headers, error_payload>>
    /\ UNCHANGED <<tvars, kvars, evars>>

\* The aclose() of the success path completes: _make_request returns or raises.
BodyClosed(t) ==
    /\ pc[t] = "aclose"
    /\ raw_response' = [raw_response EXCEPT ![t] = ClosedAfter(@)]
    /\ Finish(t, reply[t].class)
    /\ UNCHANGED <<provider, is_closed, session_context, op, ops_started, auth_calls,
                   transport_calls>>
    /\ UNCHANGED <<transport, default_headers, request, auth_headers, all_headers, error_payload, reply>>
    /\ UNCHANGED <<tvars, kvars, evars>>

\* ---------------------------------------------------- ExtensionRegistry

ExtensionIds == {"ext.a", "ext.b"}

\* A class without an extension_id attribute.
NoId == "<missing>"

ExtensionClass(n, id) == [name |-> n, extension_id |-> id]

\* Two classes with the same id, one with another id, one with an empty id
\* and one without the attribute.
ExtensionClasses ==
    {ExtensionClass("A1", "ext.a"), ExtensionClass("A2", "ext.a"), ExtensionClass("B", "ext.b"),
     ExtensionClass("Empty", ""), ExtensionClass("NoAttr", NoId)}

NoClass == "none"
NoInstance == 0
NoExtension == [extension_id |-> "none", instance |-> NoInstance]

\* hasattr(extension_class, 'extension_id') and extension_class.extension_id
HasValidId(k) == k.extension_id \notin {NoId, ""}

\* Variant: an id that is taken is not noticed.
Collides_Never(k) == FALSE

\* extension_class.extension_id in self._extensions
Collides(k) == extensions[k.extension_id] # NoClass

\* extension_id in self._initialized_extensions
Memoized(id) == initialized_extensions[id] # NoInstance

\* get_extension returns the instance i for the id.
ReturnInstance(t, id, i) ==
    /\ extension' = [extension EXCEPT ![t] = [extension_id |-> id, instance |-> i]]
    /\ returned' = [returned EXCEPT ![id] = @ \cup {i}]
    /\ Finish(t, "extension")

\* MtapClient.register_extension -> ExtensionRegistry.register: no await.
RegisterExtension(t, k) ==
    /\ CanStart(t)
    /\ Start(t, "register_extension")
    /\ IF is_closed
       THEN Finish(t, "MtapSdkError: closed") /\ UNCHANGED extensions
       ELSE IF ~ HasValidId(k)
            THEN Finish(t, "ValueError") /\ UNCHANGED extensions
            ELSE IF Collides(k)
                 THEN Finish(t, "ValueError") /\ UNCHANGED extensions
                 ELSE /\ extensions' = [extensions EXCEPT ![k.extension_id] = k.name]
                      /\ Finish(t, "None")
    /\ UNCHANGED <<provider, is_closed, session_context, auth_calls, transport_calls>>
    /\ UNCHANGED <<initialized_extensions, instances, extension, initialize_ok, returned>>
    /\ UNCHANGED <<tvars, rvars, kvars>>

\* MtapClient.get_extension -> ExtensionRegistry.get_extension, up to its
\* return or to the await of initialize().
StartGetExtension(t, id) ==
    /\ CanStart(t)
    /\ Start(t, "get_extension")
    /\ IF is_closed
       THEN /\ Finish(t, "MtapSdkError: closed")
            /\ UNCHANGED <<instances, extension, returned>>
       ELSE IF Memoized(id)
            THEN /\ ReturnInstance(t, id, initialized_extensions[id])
                 /\ UNCHANGED instances
            ELSE IF extensions[id] = NoClass
                 THEN /\ Finish(t, "None")
                      /\ UNCHANGED <<instances, extension, returned>>
                 ELSE /\ instances' = instances + 1
                      /\ extension' = [extension EXCEPT
                                         ![t] = [extension_id |-> id, instance |-> instances + 1]]
                      /\ Suspend(t, "initialize")
                      /\ UNCHANGED returned
    /\ UNCHANGED <<provider, is_closed, session_context, auth_calls, transport_calls>>
    /\ UNCHANGED <<extensions, initialized_extensions, initialize_ok>>
    /\ UNCHANGED <<tvars, rvars, kvars>>

\* await extension_instance.initialize(config) completes: the instance is
\* stored and returned; or it raises, which is printed, and None is returned.
InitializeReturns(t) ==
    /\ pc[t] = "initialize"
    /\ \/ /\ initialized_extensions' = [initialized_extensions EXCEPT
                                          ![extension[t].extension_id] = extension[t].instance]
          /\ initialize_ok' = [initialize_ok EXCEPT ![extension[t].extension_id] = @ + 1]
          /\ ReturnInstance(t, extension[t].extension_id, extension[t].instance)
       \/ /\ Finish(t, "None")
          /\ UNCHANGED <<initialized_extensions, initialize_ok, extension, returned>>
    /\ UNCHANGED <<provider, is_closed, session_context, op, ops_started, auth_calls,
                   transport_calls>>
    /\ UNCHANGED <<extensions, instances>>
    /\ UNCHANGED <<tvars, rvars, kvars>>

\* ------------------------------------------------------------ specification

TransportInit ==
    /\ retry_config \in {RetryConfig(a, b, m, f) :
                           a \in 0..MaxAttempts, b \in BackoffFactors,
                           m \in MaxRetryDelays, f \in Forcelists}
    /\ state = [c \in Calls |-> "Idle"]
    /\ current_attempt = [c \in Calls |-> 0]
    /\ last_exception = [c \in Calls |-> NoException]
    /\ actual_delay = [c \in Calls |-> -1]
    /\ outcomes = [c \in Calls |-> <<>>]
    /\ http_calls = [c \in Calls |-> 0]
    /\ sleeps = [c \in Calls |-> 0]
    /\ result = [c \in Calls |-> Pending]
    /\ stream_response = [c \in Calls |-> FALSE]
    /\ open_responses = [c \in Calls |-> 0]
    /\ body = [c \in Calls |-> NoBodyArgs]

\* MtapClient.__init__: no session, open, no coroutine running.
ClientInit ==
    /\ is_closed = FALSE
    /\ session_context = NoSession
    /\ op = [t \in Tasks |-> "none"]
    /\ pc = [t \in Tasks |-> "idle"]
    /\ outcome = [t \in Tasks |-> "pending"]
    /\ ops_started = 0
    /\ auth_calls = 0
    /\ transport_calls = 0
    /\ request = [t \in Tasks |-> PlainRequest]
    /\ auth_headers = [t \in Tasks |-> NoHeaders]
    /\ all_headers = [t \in Tasks |-> NoHeaders]
    /\ raw_response = [t \in Tasks |-> NoResponse]
    /\ error_payload = [t \in Tasks |-> NonePayload]
    /\ reply = [t \in Tasks |-> NoReply]
    /\ extensions = [id \in ExtensionIds |-> NoClass]
    /\ initialized_extensions = [id \in ExtensionIds |-> NoInstance]
    /\ instances = 0
    /\ extension = [t \in Tasks |-> NoExtension]
    /\ initialize_ok = [id \in ExtensionIds |-> 0]
    /\ returned = [id \in ExtensionIds |-> {}]

NotHandled == [status_code |-> 0, error_payload |-> NonePayload, raised |-> NoError]

Init ==
    /\ TransportInit
    /\ ClientInit
    /\ provider = "valid"
    /\ transport = "HttpTransport"
    /\ default_headers = NoHeaders
    /\ handled = NotHandled
    /\ closing = NotClosing

\* One call of HttpTransport.request on a transport with any RetryConfig.
Next ==
    \/ Request("c1", NoBodyArgs)
    \/ AttemptResponds("c1")
    \/ AttemptRaises("c1")
    \/ Wake("c1")

Spec == Init /\ [][Next]_vars

\* Two calls of HttpTransport.request running concurrently on one transport.
InitTwoCalls ==
    /\ Init
    /\ retry_config.backoff_factor = 500
    /\ retry_config.max_retry_delay = 60000
    /\ retry_config.status_forcelist = {500, 502, 503, 504}

\* The calls of this specification do not stream, and their attempts end in
\* 200, in 503 or in a timeout.
Plain(c) ==
    /\ ~ stream_response[c]
    /\ \A i \in 1..Len(outcomes[c]) : outcomes[c][i] \in {Response(200), Response(503), Timeout}

NextTwoCalls ==
    \E c \in Calls :
        /\ \/ Request(c, NoBodyArgs)
           \/ AttemptResponds(c)
           \/ AttemptRaises(c)
           \/ Wake(c)
        /\ Plain(c)'

SpecTwoCalls == InitTwoCalls /\ [][NextTwoCalls]_vars

\* One call of HttpTransport.request with any body arguments.
NextBodies ==
    /\ \/ \E b \in BodyArgSets : Request("c1", b)
       \/ AttemptResponds("c1")
       \/ AttemptRaises("c1")
       \/ Wake("c1")
    /\ Plain("c1")'

SpecBodies == InitTwoCalls /\ [][NextBodies]_vars

\* A client with the default RetryConfig and any auth provider.
InitClient ==
    /\ TransportInit
    /\ retry_config = RetryConfig(3, 500, 60000, {500, 502, 503, 504})
    /\ ClientInit
    /\ provider \in Providers
    /\ transport = "HttpTransport"
    /\ default_headers = NoHeaders
    /\ handled = NotHandled
    /\ closing = NotClosing

\* Tasks calling into one client concurrently.
NextClient ==
    \E t \in Tasks :
        \/ StartMakeRequest(t, PlainRequest)
        \/ \E auto \in BOOLEAN : StartGetSessionContext(t, auto)
        \/ StartAuthenticate(t)
        \/ StartClose(t)
        \/ AuthReturns(t)
        \/ HeadersReturn(t)
        \/ TransportClosed(t)
        \/ LogoutReturns(t)

SpecClient == InitClient /\ [][NextClient]_vars

\* Tasks whose only calls are _make_request and get_session_context.
NextCallers ==
    \E t \in Tasks :
        \/ StartMakeRequest(t, PlainRequest)
        \/ \E auto \in BOOLEAN : StartGetSessionContext(t, auto)
        \/ AuthReturns(t)
        \/ HeadersReturn(t)

SpecCallers == InitClient /\ [][NextCallers]_vars

\* One task calling into the client: no two calls overlap.
NextSequential ==
    \/ StartMakeRequest("t1", PlainRequest)
    \/ \E auto \in BOOLEAN : StartGetSessionContext("t1", auto)
    \/ StartAuthenticate("t1")
    \/ StartClose("t1")
    \/ AuthReturns("t1")
    \/ HeadersReturn("t1")
    \/ TransportClosed("t1")
    \/ LogoutReturns("t1")

SpecSequential == InitClient /\ [][NextSequential]_vars

\* A client with any default headers and either transport.
InitHeaders ==
    /\ TransportInit
    /\ retry_config = RetryConfig(3, 500, 60000, {500, 502, 503, 504})
    /\ ClientInit
    /\ provider = "valid"
    /\ transport \in Transports
    /\ default_headers \in DefaultHeaderSets
    /\ handled = NotHandled
    /\ closing = NotClosing

\* One task making the calls of the API methods, up to the call of
\* transport.request.
NextHeaders ==
    \/ \E rq \in Requests : StartMakeRequest("t1", rq)
    \/ AuthReturns("t1")
    \/ HeadersReturn("t1")

SpecHeaders == InitHeaders /\ [][NextHeaders]_vars

\* A client without default headers and with either transport.
InitRequests ==
    /\ TransportInit
    /\ retry_config = RetryConfig(3, 500, 60000, {500, 502, 503, 504})
    /\ ClientInit
    /\ provider = "valid"
    /\ transport \in Transports
    /\ default_headers = NoHeaders
    /\ handled = NotHandled
    /\ closing = NotClosing

\* One task making one call after the other, each to its end.
NextRequests ==
    \/ \E rq \in RequestShapes : StartMakeRequest("t1", rq)
    \/ AuthReturns("t1")
    \/ HeadersReturn("t1")
    \/ TransportReturns("t1")
    \/ ErrorBodyRead("t1")
    \/ ErrorBodyClosed("t1")
    \/ BodyRead("t1")
    \/ BodyClosed("t1")

SpecRequests == InitRequests /\ [][NextRequests]_vars

\* Tasks registering and getting extensions on one open client.
InitExtensions ==
    /\ InitClient
    /\ provider = "valid"

NextExtensions ==
    \E t \in Tasks :
        \/ \E k \in ExtensionClasses : RegisterExtension(t, k)
        \/ \E id \in ExtensionIds : StartGetExtension(t, id)
        \/ InitializeReturns(t)

SpecExtensions == InitExtensions /\ [][NextExtensions]_vars

\* Tasks using one client while it is being closed and after.
NextClosing ==
    \E t \in Tasks :
        \/ StartMakeRequest(t, PlainRequest)
        \/ \E auto \in BOOLEAN : StartGetSessionContext(t, auto)
        \/ StartAuthenticate(t)
        \/ RegisterExtension(t, ExtensionClass("A1", "ext.a"))
        \/ StartGetExtension(t, "ext.a")
        \/ StartClose(t)
        \/ AuthReturns(t)
        \/ HeadersReturn(t)
        \/ InitializeReturns(t)
        \/ TransportClosed(t)
        \/ LogoutReturns(t)

SpecClosing == InitExtensions /\ [][NextClosing]_vars

\* A client with either transport whose provider authenticates.
InitInFlight ==
    /\ InitHeaders
    /\ default_headers = NoHeaders

\* Tasks making requests on one client while it is being closed.
NextInFlight ==
    \E t \in Tasks :
        \/ StartMakeRequest(t, PlainRequest)
        \/ StartClose(t)
        \/ AuthReturns(t)
        \/ HeadersReturn(t)
        \/ TransportClosed(t)
        \/ LogoutReturns(t)

SpecInFlight == InitInFlight /\ [][NextInFlight]_vars

\* The method the API methods give to _make_request.
Method(rq) == IF rq.api = "get_memory" THEN "GET" ELSE "POST"

\* Line 169: server_url joined with the path the API method gives.
FullUrl(rq) ==
    CASE rq.api = "capture_memory" -> "server_url/memories"
      [] rq.api = "append_to_memory" -> "server_url/memories/m1/append"
      [] rq.api = "revoke_memory" -> "server_url/memories/m1/revoke"
      [] rq.api = "get_memory" -> "server_url/memories/m1"
      [] OTHER -> "server_url/path"

\* Lines 179-186: the transport runs the request that _make_request of task
\* t hands to it.
TransportRequest(t, c) ==
    /\ pc[t] = "transport.request"
    /\ Request(c, WithArgs(NoBodyArgs, Method(request[t]), FullUrl(request[t]), all_headers[t]))

\* The calls that carry an Idempotency-Key.
KeyedRequests ==
    {CaptureMemory("req-1", "proof", None), AppendToMemory("req-1", None),
     RevokeMemory("req-1", None), RevokeMemory(None, None)}

\* A client whose transport takes the call of _make_request and runs the
\* attempt loop of HttpTransport.request.
InitArgs ==
    /\ InitHeaders
    /\ transport = "transport taking json="
    /\ default_headers = NoHeaders

\* One capture, append or revoke from the API method down to its attempts.
NextArgs ==
    /\ \/ \E rq \in KeyedRequests : StartMakeRequest("t1", rq)
       \/ AuthReturns("t1")
       \/ HeadersReturn("t1")
       \/ TransportRequest("t1", "c1")
       \/ AttemptResponds("c1")
       \/ AttemptRaises("c1")
       \/ Wake("c1")
    /\ Plain("c1")'

SpecArgs == InitArgs /\ [][NextArgs]_vars

\* Any call of _handle_api_error.
InitClassifier ==
    /\ TransportInit
    /\ retry_config = RetryConfig(3, 500, 60000, {500, 502, 503, 504})
    /\ ClientInit
    /\ provider = "valid"
    /\ transport = "HttpTransport"
    /\ default_headers = NoHeaders
    /\ handled \in [status_code : ErrorStatuses, error_payload : ErrorPayloads, raised : {NoError}]
    /\ closing = NotClosing

SpecClassifier == InitClassifier /\ [][HandleApiError]_vars

\* ------------------------------------------------- claims on the retry loop

Terminal == {"Returned", "Failed"}

Last(s) == s[Len(s)]

\* Every attempt made so far ended in the outcome o.
AllOutcomes(c, o) == \A i \in 1..Len(outcomes[c]) : outcomes[c][i] = o

\* C1: with attempts = N >= 1 and a server answering every attempt with the
\* same error status of the forcelist, a request() call makes exactly N HTTP
\* attempts before it completes: never more, and N when it has completed.
C1_ExactlyNAttempts ==
    \A c \in Calls : \A s \in retry_config.status_forcelist :
        (retry_config.attempts >= 1 /\ s >= 400 /\ AllOutcomes(c, Response(s)))
            => /\ http_calls[c] <= retry_config.attempts
               /\ state[c] \in Terminal => http_calls[c] = retry_config.attempts

C1_Witness ==
    /\ retry_config.attempts = 3
    /\ state["c1"] \in Terminal
    /\ outcomes["c1"] = <<Response(503), Response(503), Response(503)>>
    /\ http_calls["c1"] = 3

\* C2: when the attempts are exhausted and the last attempt ended in a
\* response whose status is in the forcelist, request() raises MtapApiError
\* carrying that status instead of returning the response.
C2_ExhaustedStatusRaises ==
    \A c \in Calls :
        (/\ state[c] \in Terminal
         /\ retry_config.attempts >= 1
         /\ Len(outcomes[c]) = retry_config.attempts
         /\ Last(outcomes[c]).kind = "response"
         /\ Last(outcomes[c]).status \in retry_config.status_forcelist)
            => result[c] = Raised(MtapApiErrorOf(Last(outcomes[c]).status))

\* C3: when every attempt ends in a timeout or a connection error, request()
\* makes exactly attempts attempts and then raises the NetworkError of the
\* last attempt, whatever the forcelist is.
C3_NetworkFailuresExhaust ==
    \A c \in Calls :
        (/\ Len(outcomes[c]) >= 1
         /\ \A i \in 1..Len(outcomes[c]) : outcomes[c][i] \in {Timeout, ConnectError})
            => /\ http_calls[c] <= retry_config.attempts
               /\ state[c] # "Returned"
               /\ state[c] = "Failed" =>
                     /\ http_calls[c] = retry_config.attempts
                     /\ result[c] = Raised(NetworkErrorOf(Last(outcomes[c]).kind,
                                                          retry_config.attempts))

C3_Witness ==
    /\ retry_config.attempts = 3
    /\ retry_config.status_forcelist = {}
    /\ state["c1"] = "Failed"
    /\ outcomes["c1"] = <<Timeout, ConnectError, Timeout>>
    /\ result["c1"] = Raised(NetworkErrorOf("timeout", 3))

\* C4: a response whose status is not in the forcelist is returned by the
\* attempt that received it, on any attempt number: it is the last outcome of
\* the call, the call has returned it, and no attempt or delay followed.
C4_OtherStatusReturnedAtOnce ==
    \A c \in Calls : \A i \in 1..Len(outcomes[c]) :
        (/\ outcomes[c][i].kind = "response"
         /\ outcomes[c][i].status \notin retry_config.status_forcelist)
            => /\ i = Len(outcomes[c])
               /\ state[c] = "Returned"
               /\ result[c] = Returned(outcomes[c][i].status)
               /\ http_calls[c] = i
               /\ sleeps[c] = i - 1

C4_Witness ==
    /\ retry_config.attempts = 3
    /\ retry_config.status_forcelist = {}
    /\ outcomes["c1"] = <<Response(404)>>
    /\ result["c1"] = Returned(404)
    /\ sleeps["c1"] = 0

\* C5 as stated: a response whose status is in the forcelist is never
\* returned by an attempt that is not the final one, whatever its class.
C5_ForcelistNeverReturnedEarly ==
    \A c \in Calls :
        ~ (/\ state[c] = "Returned"
           /\ result[c].status \in retry_config.status_forcelist
           /\ current_attempt[c] < retry_config.attempts)

\* C5 amended: a response whose status is in the forcelist and is an error
\* status (4xx or 5xx), received by an attempt that is not the final one, is
\* not returned: a delay is slept after it and a further attempt follows.
C5_ForcelistErrorRetried ==
    \A c \in Calls : \A i \in 1..Len(outcomes[c]) :
        (/\ outcomes[c][i].kind = "response"
         /\ outcomes[c][i].status \in retry_config.status_forcelist
         /\ outcomes[c][i].status >= 400
         /\ i < retry_config.attempts)
            => /\ sleeps[c] >= i
               /\ i = Len(outcomes[c]) => state[c] \in {"Retrying", "Attempting"}
               /\ state[c] \in Terminal => Len(outcomes[c]) > i

C5_Witness ==
    /\ retry_config.status_forcelist = {404, 503}
    /\ retry_config.attempts = 3
    /\ outcomes["c1"] = <<Response(404), Response(503)>>
    /\ state["c1"] = "Attempting"
    /\ http_calls["c1"] = 3
    /\ sleeps["c1"] = 2

\* C6: whatever the attempts end in, a request() call never makes more than
\* attempts HTTP attempts, and once it has returned or raised no attempt is
\* in flight and no delay is pending: every delay slept was followed by an
\* attempt.
C6_AttemptsBounded ==
    \A c \in Calls :
        /\ http_calls[c] <= retry_config.attempts
        /\ Len(outcomes[c]) <= http_calls[c]
        /\ state[c] \in Terminal =>
              /\ Len(outcomes[c]) = http_calls[c]
              /\ sleeps[c] = Max(0, http_calls[c] - 1)
              /\ result[c].kind \in {"return", "raise"}

C6_Witness ==
    /\ retry_config.attempts = 3
    /\ state["c1"] = "Failed"
    /\ outcomes["c1"] = <<Unexpected, Response(503), Timeout>>
    /\ http_calls["c1"] = 3
    /\ sleeps["c1"] = 2

\* C7 as stated: the delay slept after attempt k lies in
\* [backoff_factor * 2^(k-1) * 0.9, min(backoff_factor * 2^(k-1) * 1.1,
\* max_retry_delay)] and is not negative.
C7_DelayInStatedInterval ==
    \A c \in Calls :
        state[c] = "Retrying" =>
            LET d == retry_config.backoff_factor * (2 ^ (current_attempt[c] - 1))
            IN  /\ 10 * actual_delay[c] >= 9 * d
                /\ 10 * actual_delay[c] <= Min(11 * d, 10 * retry_config.max_retry_delay)
                /\ actual_delay[c] >= 0

\* C7 amended: the delay slept after attempt k lies in
\* [min(backoff_factor * 2^(k-1) * 0.9, max_retry_delay),
\*  min(backoff_factor * 2^(k-1) * 1.1, max_retry_delay)] and is not negative.
C7_DelayInCappedInterval ==
    \A c \in Calls :
        state[c] = "Retrying" =>
            LET d == retry_config.backoff_factor * (2 ^ (current_attempt[c] - 1))
            IN  /\ 10 * actual_delay[c] >= Min(9 * d, 10 * retry_config.max_retry_delay)
                /\ 10 * actual_delay[c] <= Min(11 * d, 10 * retry_config.max_retry_delay)
                /\ actual_delay[c] >= 0

C7_Witness ==
    /\ state["c1"] = "Retrying"
    /\ current_attempt["c1"] = 2
    /\ retry_config.backoff_factor = 500
    /\ retry_config.max_retry_delay = 450
    /\ actual_delay["c1"] = 450

\* ------------------------------------------------ claims on the session

\* C8: when _make_request and get_session_context calls run concurrently on
\* an open client with no cached session (and a provider that returns a
\* valid session), auth_provider.authenticate() is called at most once.
C8_AuthenticateAtMostOnce ==
    provider = "valid" => auth_calls <= 1

\* C9: in a sequence of non-overlapping calls on a client whose provider
\* returns a session with token_info, a _make_request calls
\* auth_provider.authenticate() only when it has never been called before,
\* the first request on the open client does call it, and every request that
\* goes on to its headers holds the cached valid session.
C9_SequentialRequestsAuthenticateOnce ==
    [][provider = "valid" =>
        \A t \in Tasks :
            /\ (op'[t] = "_make_request" /\ auth_calls' # auth_calls) => auth_calls = 0
            /\ (/\ ops_started' # ops_started
                /\ op'[t] = "_make_request"
                /\ ~ is_closed
                /\ auth_calls = 0) => auth_calls' = 1
            /\ (op'[t] = "_make_request" /\ pc'[t] = "get_auth_headers")
                  => (session_context' = ValidSession /\ auth_calls' >= 1)]_vars

C9_Witness ==
    /\ provider = "valid"
    /\ ops_started = 2
    /\ op["t1"] = "_make_request"
    /\ pc["t1"] = "get_auth_headers"
    /\ transport_calls = 1
    /\ auth_calls = 1

\* C10: whenever _make_request calls transport.request, the client holds a
\* cached session for which is_authenticated() is true.
C10_TransportOnlyWhenAuthenticated ==
    [][transport_calls' # transport_calls => IsAuthenticated]_vars

\* ------------------------------------------- claims on response handles

\* C11: when HttpTransport.request completes, every response it opened is
\* closed except the one handle returned on the streaming path, and a
\* response that is retried is closed before the next attempt starts.
C11_TransportClosesResponses ==
    \A c \in Calls :
        /\ state[c] \in {"Attempting", "Retrying"} => open_responses[c] = 0
        /\ state[c] = "Failed" => open_responses[c] = 0
        /\ state[c] = "Returned" =>
              open_responses[c] = (IF stream_response[c] THEN 1 ELSE 0)

\* ---------------------------------------------- claims on the classifier

\* C16: for every status _handle_api_error raises one error whose
\* status_code is the input and whose class is fixed by the status alone:
\* 400 InvalidRequestError, 401 AuthenticationError, 403 AuthorizationError,
\* 404 NotFoundError, 409 IdempotencyConflictError, 429 RateLimitError, any
\* other status in [500, 600) ServerError, every other status MtapApiError.
C16_ClassByStatus ==
    handled.raised # NoError =>
        /\ handled.raised.status_code = handled.status_code
        /\ handled.raised.class =
             (LET s == handled.status_code
              IN  IF s = 400 THEN "InvalidRequestError"
                  ELSE IF s = 401 THEN "AuthenticationError"
                  ELSE IF s = 403 THEN "AuthorizationError"
                  ELSE IF s = 404 THEN "NotFoundError"
                  ELSE IF s = 409 THEN "IdempotencyConflictError"
                  ELSE IF s = 429 THEN "RateLimitError"
                  ELSE IF s >= 500 /\ s <= 599 THEN "ServerError"
                  ELSE "MtapApiError")

C16_Witness ==
    /\ handled.status_code = 500
    /\ handled.error_payload = DictPayload(IntV, AbsentV, "top message")
    /\ handled.raised.class = "ServerError"
    /\ handled.raised.status_code = 500

\* C17: when the payload is an object whose detail entry (or, without a
\* detail entry, its error entry) is an object with a message entry, the
\* message of the raised error is that entry; when it is a string, the
\* message is that string.
C17_MessageFromDetail ==
    (handled.raised # NoError /\ handled.error_payload.type = "dict") =>
        LET p == handled.error_payload
            f == IF p.detail.type # "absent" THEN p.detail ELSE p.error
        IN  /\ (f.type = "dict" /\ f.sub # NoSub) => handled.raised.message = Text(f.sub)
            /\ f.type = "str" => handled.raised.message = Text(f.text)

C17_Witness ==
    /\ handled.status_code = 403
    /\ handled.error_payload = DictPayload(DictMessageV("bad scope"), AbsentV, NoSub)
    /\ handled.raised = [class |-> "AuthorizationError", status_code |-> 403,
                         message |-> Text("bad scope")]

\* C18: when the chosen entry (detail, else error) is present but is neither
\* a string nor an object, the message of the raised error is the
\* stringified value of that entry.
C18_OtherDetailStringified ==
    (handled.raised # NoError /\ handled.error_payload.type = "dict") =>
        LET p == handled.error_payload
            f == IF p.detail.type # "absent" THEN p.detail ELSE p.error
        IN  f.type \in {"int", "bool", "list"} => handled.raised.message = Text(f.text)

\* ------------------------------------- claims on the handling of responses

\* The response of task t had a status outside expected_status.
ErrorPath(t) ==
    /\ raw_response[t].status_code # 0
    /\ raw_response[t].status_code \notin request[t].expected_status

\* The response of task t had a status in expected_status.
SuccessPath(t) == raw_response[t].status_code \in request[t].expected_status

\* C12: when the status of the response is not in expected_status, the body
\* is closed before the error is raised, whether or not the response was
\* streamed and whether or not its body could be read and decoded, and the
\* error raised is the classified error of the status.
C12_ErrorBodyClosedBeforeRaise ==
    \A t \in Tasks :
        ErrorPath(t) =>
            /\ pc[t] = "done" => reply[t].kind = "raise"
            /\ reply[t].kind = "raise" =>
                  /\ raw_response[t].is_closed
                  /\ raw_response[t].closes = 1
                  /\ reply[t].class = ErrorClass(raw_response[t].status_code)
                  /\ reply[t].status_code = raw_response[t].status_code

C12_Witness ==
    /\ pc["t1"] = "done"
    /\ request["t1"].stream_response
    /\ raw_response["t1"].status_code = 503
    /\ raw_response["t1"].body = "read error"
    /\ raw_response["t1"].is_closed
    /\ reply["t1"].kind = "raise"
    /\ reply["t1"].class = "ServerError"

\* C13: when stream_response is asked for and the status is in
\* expected_status, _make_request returns the response handle itself, open
\* and unread: the client has neither read nor closed it, and there is no
\* decoded payload.
C13_StreamedHandleReturnedUntouched ==
    \A t \in Tasks :
        (pc[t] = "done" /\ SuccessPath(t) /\ request[t].stream_response) =>
            /\ reply[t] = Returns("raw_response")
            /\ ~ raw_response[t].is_closed
            /\ raw_response[t].reads = 0
            /\ raw_response[t].closes = 0

C13_Witness ==
    /\ pc["t1"] = "done"
    /\ request["t1"] = GetMemory(None, "0-99", None, TRUE)
    /\ all_headers["t1"]["Range"] = "bytes=0-99"
    /\ raw_response["t1"].status_code = 206
    /\ reply["t1"] = Returns("raw_response")
    /\ ~ raw_response["t1"].is_closed

\* C14: without stream_response and with a status in expected_status, the
\* body has been closed by the client on every exit of _make_request: after
\* a decode, after an empty body, and when reading or decoding raised.
C14_SuccessBodyClosedOnEveryExit ==
    \A t \in Tasks :
        (pc[t] = "done" /\ SuccessPath(t) /\ ~ request[t].stream_response) =>
            /\ reply[t].kind \in {"return", "raise"}
            /\ raw_response[t].is_closed
            /\ raw_response[t].closes = 1

C14_Witness ==
    /\ pc["t1"] = "done"
    /\ SuccessPath("t1")
    /\ ~ request["t1"].stream_response
    /\ raw_response["t1"].body = "read error"
    /\ reply["t1"].kind = "raise"
    /\ raw_response["t1"].closes = 1

\* C15: when a response with a status in expected_status cannot be decoded
\* (invalid JSON, or bytes that are not UTF-8, under a JSON content type),
\* the error raised carries the status code of the response.
C15_DecodeErrorCarriesStatus ==
    \A t \in Tasks :
        ( /\ pc[t] = "done"
          /\ SuccessPath(t)
          /\ ~ request[t].stream_response
          /\ IsJson(raw_response[t].content_type)
          /\ raw_response[t].body \in {"not json", "not utf-8"} ) =>
            /\ reply[t].kind = "raise"
            /\ reply[t].status_code = raw_response[t].status_code

\* --------------------------------------------------- claims on the headers

\* Task t has built the headers and called transport.request with them.
Sent(t) ==
    \/ pc[t] \in {"transport.request", "aread error body", "aclose error body", "aread",
                  "aclose"}
    \/ pc[t] = "done" /\ (reply[t] # NoReply \/ outcome[t] = "MtapSdkError: unexpected")

\* C19: the headers sent are the default headers, overridden by the headers
\* of the call, overridden by the auth headers; a header of one source only
\* is sent as it is.
C19_HeaderPrecedence ==
    \A t \in Tasks :
        Sent(t) =>
            \A n \in HeaderNames :
                LET d == default_headers[n]
                    h == request[t].headers[n]
                    a == auth_headers[t][n]
                IN  /\ a # NoHeader => all_headers[t][n] = a
                    /\ (a = NoHeader /\ h # NoHeader) => all_headers[t][n] = h
                    /\ (a = NoHeader /\ h = NoHeader /\ d # NoHeader) => all_headers[t][n] = d

C19_Witness ==
    /\ Sent("t1")
    /\ default_headers = Headers({"Accept", "Content-Type", "X-Consent-Proof"}, "default")
    /\ request["t1"] = GetMemory("application/cbor", None, "proof", FALSE)
    /\ auth_headers["t1"] = Headers({"Authorization", "Accept", "X-Consent-Proof"}, "auth")
    /\ all_headers["t1"]["Accept"] = "auth"
    /\ all_headers["t1"]["Authorization"] = "auth"
    /\ all_headers["t1"]["Content-Type"] = "default"

Locals(c) == <<state[c], current_attempt[c], last_exception[c], actual_delay[c],
               outcomes[c], http_calls[c], sleeps[c], result[c]>>

\* C21: two concurrent calls of HttpTransport.request each run their own
\* attempt loop: a step of one call changes nothing of the other, each call
\* makes at most RetryConfig.attempts attempts, counts its own attempts, and
\* returns the response of its own last attempt.
C21_CallsIndependent ==
    [][ /\ \E c \in Calls : \A d \in Calls \ {c} : Locals(d)' = Locals(d)
        /\ \A c \in Calls :
             /\ http_calls'[c] <= Max(0, retry_config.attempts)
             /\ current_attempt'[c] = Len(outcomes'[c])
                                        + (IF state'[c] = "Attempting" THEN 1 ELSE 0)
             /\ state'[c] = "Returned" =>
                   result'[c] = Returned(Last(outcomes'[c]).status) ]_vars

C21_Witness ==
    /\ retry_config.attempts = 3
    /\ state["c1"] = "Failed"
    /\ http_calls["c1"] = 3
    /\ AllOutcomes("c1", Timeout)
    /\ state["c2"] = "Retrying"
    /\ outcomes["c2"] = <<Response(503)>>
    /\ sleeps["c2"] = 1

\* --------------------------------------------------- claims on close()

\* C22: once close() has completed, the cached session context is None in
\* every later state, also when an authenticate() or _make_request call that
\* started before close() finishes after it.
C22_NoSessionAfterClose == is_closed => session_context = NoSession

\* ------------------------------------------------ claims on the registry

\* C23: register of a class whose extension_id is already registered, or is
\* missing or empty, raises ValueError and leaves the registry as it was:
\* the class registered first stays mapped to the id and the initialized
\* instances are untouched.
C23_RejectedRegisterChangesNothing ==
    [][ \A t \in Tasks, k \in ExtensionClasses :
          ( /\ RegisterExtension(t, k)
            /\ \/ k.extension_id \in {NoId, ""}
               \/ extensions[k.extension_id] # NoClass ) =>
              /\ outcome'[t] = "ValueError"
              /\ extensions' = extensions
              /\ initialized_extensions' = initialized_extensions ]_vars

C23_Witness ==
    /\ extensions["ext.a"] = "A1"
    /\ op["t2"] = "register_extension"
    /\ outcome["t2"] = "ValueError"
    /\ initialized_extensions["ext.a"] # NoInstance

\* C24: all successful get_extension calls for one extension_id return one
\* and the same instance, and initialize() completes only once for the id,
\* in every interleaving of the calls.
C24_OneInstancePerId ==
    \A id \in ExtensionIds :
        /\ Cardinality(returned[id]) <= 1
        /\ initialize_ok[id] <= 1

\* -------------------------------------------- claims on get_session_context

\* C25: get_session_context(auto_authenticate=False) never calls
\* auth_provider.authenticate(): on an open client it returns the cached
\* session when the client is authenticated and None otherwise, and it leaves
\* the cached session as it is.
C25_NoAutoAuthenticateIsReadOnly ==
    [][ \A t \in Tasks :
          StartGetSessionContext(t, FALSE) =>
              /\ auth_calls' = auth_calls
              /\ session_context' = session_context
              /\ ~ is_closed =>
                    /\ pc'[t] = "done"
                    /\ outcome'[t] = (IF session_context = ValidSession
                                      THEN session_context ELSE NoSession) ]_vars

C25_Witness ==
    /\ ~ is_closed
    /\ op["t1"] = "get_session_context"
    /\ pc["t1"] = "done"
    /\ outcome["t1"] = NoSession
    /\ session_context = NoTokenSession
    /\ auth_calls = 1

\* ------------------------------------------------ claims on the delays

\* The outcome of an attempt after which the loop goes on: an exception, or a
\* response with an error status of the forcelist.
Retryable(o) ==
    \/ o.kind # "response"
    \/ o.status \in retry_config.status_forcelist /\ o.status >= 400

\* C26: a delay is slept only after an attempt with a retryable outcome that
\* is not the last attempt, every attempt but the first starts when a delay
\* has elapsed, and a call that has ended after m >= 1 attempts has slept
\* m - 1 delays.
C26_DelaysOnlyBetweenAttempts ==
    [][ \A c \in Calls :
          /\ sleeps'[c] # sleeps[c] =>
                /\ sleeps'[c] = sleeps[c] + 1
                /\ state[c] = "Attempting"
                /\ current_attempt[c] < retry_config.attempts
                /\ Retryable(Last(outcomes'[c]))
                /\ sleeps'[c] = http_calls[c]
          /\ (http_calls'[c] # http_calls[c] /\ http_calls[c] >= 1) =>
                /\ state[c] = "Retrying"
                /\ http_calls'[c] = sleeps[c] + 1
          /\ (state'[c] \in Terminal /\ http_calls'[c] >= 1) =>
                sleeps'[c] = http_calls'[c] - 1 ]_vars

C26_Witness ==
    /\ retry_config.attempts = 3
    /\ state["c1"] = "Returned"
    /\ outcomes["c1"] = <<Timeout, Response(503), Response(200)>>
    /\ http_calls["c1"] = 3
    /\ sleeps["c1"] = 2
    /\ actual_delay["c1"] >= 0

\* --------------------------------------------- claims on the request body

\* C27: within one call, an async generator given as the body (stream_data,
\* or the data part of files) is handed to at most one HTTP attempt: no
\* attempt starts with a generator that an earlier attempt has consumed.
C27_ProducerHandedOnce ==
    \A c \in Calls :
        /\ body[c].handed <= 1
        /\ ~ body[c].stale

\* C28: each attempt carries at most one body variant, files before
\* stream_data before data before json_data, and every attempt of a call
\* carries the same one.
C28_OneVariantByPrecedence ==
    \A c \in Calls :
        \A i \in 1..Len(body[c].sent) :
            body[c].sent[i] =
                (IF body[c].files # "None" THEN "files"
                 ELSE IF body[c].stream_data THEN "content: stream_data"
                 ELSE IF body[c].data = "bytes" THEN "content: data"
                 ELSE IF body[c].json_data = "dict" THEN "json"
                 ELSE "no body")

C28_Witness ==
    /\ state["c1"] = "Returned"
    /\ body["c1"].files = "None"
    /\ ~ body["c1"].stream_data
    /\ body["c1"].data = "bytes"
    /\ body["c1"].json_data = "dict"
    /\ body["c1"].sent = <<"content: data", "content: data", "content: data">>

\* ------------------------------------------ claims on the transport call

\* C29: every keyword _make_request passes to transport.request is a
\* parameter of HttpTransport.request, so that with a session the call
\* reaches the attempt loop instead of failing before any attempt.
C29_RequestReachesTransport ==
    \A t \in Tasks :
        transport = "HttpTransport" => outcome[t] # "MtapSdkError: unexpected"

\* ------------------------------------------------ claims on a closed client

\* Task t calls one of the guarded methods of the client.
Calls30(t) ==
    \/ StartMakeRequest(t, PlainRequest)
    \/ \E auto \in BOOLEAN : StartGetSessionContext(t, auto)
    \/ StartAuthenticate(t)
    \/ RegisterExtension(t, ExtensionClass("A1", "ext.a"))
    \/ StartGetExtension(t, "ext.a")

\* C30: once close() has completed, _make_request, authenticate,
\* get_session_context, register_extension and get_extension raise
\* MtapSdkError without calling the auth provider, the transport or the
\* registry, and is_authenticated() is False.
C30_ClosedClientRefuses ==
    [][ /\ is_closed' => ~ IsAuthenticated'
        /\ \A t \in Tasks :
             (is_closed /\ Calls30(t)) =>
                 /\ pc'[t] = "done"
                 /\ outcome'[t] = "MtapSdkError: closed"
                 /\ auth_calls' = auth_calls
                 /\ transport_calls' = transport_calls
                 /\ extensions' = extensions
                 /\ initialized_extensions' = initialized_extensions
                 /\ instances' = instances
                 /\ session_context' = session_context ]_vars

C30_Witness ==
    /\ is_closed
    /\ op["t1"] = "get_extension"
    /\ outcome["t1"] = "MtapSdkError: closed"
    /\ op["t2"] = "_make_request"
    /\ outcome["t2"] = "MtapSdkError: closed"
    /\ extensions["ext.a"] = "A1"
    /\ initialized_extensions["ext.a"] = NoInstance

\* -------------------------------------------- claims on failed operations

\* C34: when authenticate() has raised, because the provider returned
\* something that is not a SessionContext or because the provider raised, the
\* cached session is None and is_authenticated() is False, whatever session
\* was cached before.
C34_FailedAuthenticateClearsSession ==
    [][ \A t \in Tasks :
          ( /\ pc[t] = "authenticate"
            /\ pc'[t] = "done"
            /\ outcome'[t] \in {"provider error", "AuthenticationError"} ) =>
              /\ session_context' = NoSession
              /\ ~ IsAuthenticated' ]_vars

\* C35: an exception of an attempt that is neither a timeout nor a network
\* error is not retried and does not surface as NetworkError.
C35_UnexpectedNotRetried ==
    \A c \in Calls :
        \A i \in 1..Len(outcomes[c]) :
            outcomes[c][i] = Unexpected =>
                /\ i = Len(outcomes[c])
                /\ state[c] # "Retrying"
                /\ state[c] \in Terminal => result[c].type # "NetworkError"

C33_SameArgsEveryAttempt ==
    [][ LET b == body'["c1"]
            rq == request'["t1"]
        IN  /\ Len(b.args_sent) = http_calls'["c1"]
            /\ \A i \in 1..Len(b.args_sent) :
                   /\ b.args_sent[i] = [method |-> Method(rq), url |-> FullUrl(rq),
                                        headers |-> all_headers'["t1"]]
                   /\ b.args_sent[i] = b.args_sent[1]
                   /\ IsTruthy(rq.request_id) =>
                          b.args_sent[i].headers["Idempotency-Key"] = rq.request_id
            /\ state["c1"] # "Idle" => UNCHANGED <<auth_headers, all_headers, auth_calls,
                                                   transport_calls>> ]_vars

\* A capture with an Idempotency-Key and auth headers has been attempted
\* three times.
C33_Witness ==
    /\ request["t1"].api = "capture_memory"
    /\ Len(body["c1"].args_sent) = 3
    /\ body["c1"].args_sent[3].headers["Idempotency-Key"] = "req-1"
    /\ body["c1"].args_sent[3].headers["Authorization"] = "auth"
    /\ outcomes["c1"] = <<Timeout, Response(503)>>

====
